---- MODULE Spec2Model ----
(***************************************************************************)
(* A model of auto-stop-idle/autostop.py: one run of the script, from the  *)
(* parsing of its command line to the decision to stop the notebook        *)
(* instance.  The script is a straight-line module body; each action below *)
(* is one block of that body, and pc is the position of the run in it.     *)
(*                                                                         *)
(* Time is counted in ticks, Resolution ticks to the second (the script's  *)
(* timestamps carry microseconds).  A timestamp string                     *)
(* "%Y-%m-%dT%H:%M:%S.%fz" is the record [s |-> seconds, f |-> fraction].  *)
(* A Python value that may be None is a sequence: <<>> for None, <<v>> for *)
(* the value v.                                                            *)
(***************************************************************************)
EXTENDS Integers, Sequences, FiniteSets, TLC

VARIABLES argv, opts, args, optIdx, idle, port, ignore_connections,
          idle_timeout, pc, error, out, calls, notebook_resource,
          response, data, i, uptime, tags, now, probe, ret

vars == <<argv, opts, args, optIdx, idle, port, ignore_connections,
          idle_timeout, pc, error, out, calls, notebook_resource,
          response, data, i, uptime, tags, now, probe, ret>>

----------------------------------------------------------------------------
(* Bounds of the model *)

MaxArgs == 3
MaxSessions == 2
MaxTags == 1
MaxSeconds == 3
MaxTimeout == 3
Resolution == 2

(* Program constants *)

default_idle_timeout == 3600
DEFAULT_TAG_KEY == "AutoStopTimeOut"
DEFAULT_PORT == "8443"

None == <<>>
Some(v) == <<v>>

----------------------------------------------------------------------------
(* Input domains *)

\* Command-line tokens: the options of "ht:p:c" and of the long option list,
\* an option the script does not know, and three argument values.
OptionLike == {"-h", "--help", "-t", "--time", "-p", "-c",
               "--ignore-connections", "-x"}
Values == {"0", "2", "abc"}
Tokens == OptionLike \cup Values

SeqsUpTo(S, n) == UNION {[1..k -> S] : k \in 0..n}

MaxTick == MaxSeconds * Resolution
Ticks == 0..MaxTick
Timestamps == {[s |-> x, f |-> y] : x \in 0..MaxSeconds, y \in 0..(Resolution - 1)}

Session == [execution_state : {"idle", "busy"},
            connections : {0, 1},
            last_activity : {[s |-> 0, f |-> 0], [s |-> MaxSeconds, f |-> 0]}]
SessionLists == SeqsUpTo(Session, MaxSessions)

Tag == [Key : {DEFAULT_TAG_KEY, "Owner"}, Value : {"1", "abc"}]
TagLists == SeqsUpTo(Tag, MaxTags)

----------------------------------------------------------------------------
(* Pure functions of the script and of the library calls it makes *)

\* int(arg): the integer a string denotes, None when int() raises ValueError.
int(str) ==
    CASE str = "0" -> Some(0)
      [] str = "1" -> Some(1)
      [] str = "2" -> Some(2)
      [] OTHER -> None

\* Python truthiness of an Optional[int]: None and 0 are false.
Truthy(t) == t # None /\ t[1] # 0

\* getopt.getopt(argv, "ht:p:c", ["help","time=","port=","ignore-connections"]):
\* options are scanned from the left up to the first token that is no option;
\* an option that takes an argument takes the next token, whatever it is.
ShortOpts == {"-h", "-t", "-p", "-c"}
LongOpts == {"--help", "--time", "--port", "--ignore-connections"}
HasArg(o) == o \in {"-t", "-p", "--time", "--port"}

RECURSIVE do_opts(_, _)
do_opts(acc, rest) ==
    IF rest = <<>> \/ Head(rest) \notin OptionLike
    THEN [err |-> FALSE, opts |-> acc, args |-> rest]
    ELSE IF Head(rest) \notin ShortOpts \cup LongOpts
    THEN [err |-> TRUE, opts |-> <<>>, args |-> <<>>]
    ELSE IF HasArg(Head(rest))
    THEN IF Tail(rest) = <<>>
         THEN [err |-> TRUE, opts |-> <<>>, args |-> <<>>]
         ELSE do_opts(Append(acc, <<Head(rest), Head(Tail(rest))>>), Tail(Tail(rest)))
    ELSE do_opts(Append(acc, <<Head(rest), "">>), Tail(rest))

getopt(a) == do_opts(<<>>, a)

\* The command lines of the model: up to MaxArgs tokens, at most one of them
\* a positional argument left over after the options.
ArgvSet == {a \in SeqsUpTo(Tokens, MaxArgs) : Len(getopt(a).args) <= 1}

\* Fault: the check of lines 50-51 for an empty option list left out.
parse_without_empty_check(a) == getopt(a)

\* Lines 49-51: getopt, then GetoptError("No input parameters!") on no option.
parse_options(a) ==
    LET r == getopt(a)
    IN  IF ~r.err /\ Len(r.opts) = 0
        THEN [err |-> TRUE, opts |-> <<>>, args |-> <<>>]
        ELSE r

\* datetime.strptime(s, "%Y-%m-%dT%H:%M:%S.%fz") and datetime.strftime.
strptime(str) == str.s * Resolution + str.f
strftime(dt) == [s |-> dt \div Resolution, f |-> dt % Resolution]

\* Fault: the comparison of line 69 made with >= in place of >.
is_idle_at_or_after(last_activity, timeout, clock) ==
    (clock - strptime(last_activity)) >= timeout * Resolution

\* is_idle, lines 67-74, with datetime.now() = clock: the difference of two
\* datetimes in seconds (total_seconds) against the timeout.
is_idle(last_activity, timeout, clock) ==
    (clock - strptime(last_activity)) > timeout * Resolution

\* A call of is_idle with the positional arguments a: Python raises TypeError
\* unless both parameters are given.
call_is_idle(a, clock) ==
    IF Len(a) # 2
    THEN [raised |-> "TypeError", ret |-> FALSE]
    ELSE [raised |-> "none", ret |-> is_idle(a[1], a[2], clock)]

\* get_notebook_timeout_tag, lines 86-89: the first AutoStopTimeOut tag.
RECURSIVE get_notebook_timeout_tag(_)
get_notebook_timeout_tag(t) ==
    IF t = <<>> THEN [raised |-> "none", ret |-> None]
    ELSE IF Head(t).Key = DEFAULT_TAG_KEY
    THEN IF int(Head(t).Value) = None
         THEN [raised |-> "ValueError", ret |-> None]
         ELSE [raised |-> "none", ret |-> int(Head(t).Value)]
    ELSE get_notebook_timeout_tag(Tail(t))

\* A call of get_notebook_timeout_tag with the positional arguments a.
call_get_notebook_timeout_tag(a) ==
    IF Len(a) # 1
    THEN [raised |-> "TypeError", ret |-> None]
    ELSE get_notebook_timeout_tag(a[1])

\* Fault: the connections are looked at whether or not they are ignored.
session_step_by_connections(idle0, ignore, notebook, clock) ==
    IF notebook.execution_state = "idle"
    THEN IF notebook.connections = 0
         THEN LET r == call_is_idle(<<notebook.last_activity>>, clock)
              IN  [idle |-> idle0, raised |-> r.raised, printed |-> <<>>]
         ELSE [idle |-> FALSE, raised |-> "none",
               printed |-> <<"Notebook idle state set as False because no kernel has been detected.">>]
    ELSE [idle |-> FALSE, raised |-> "none", printed |-> <<"Notebook is not idle:">>]

\* Fault: a kernel that is not idle leaves the idle flag as it is.
session_step_busy_ignored(idle0, ignore, notebook, clock) ==
    IF notebook.execution_state = "idle"
    THEN IF ~ignore /\ notebook.connections # 0
         THEN [idle |-> FALSE, raised |-> "none",
               printed |-> <<"Notebook idle state set as False because no kernel has been detected.">>]
         ELSE LET r == call_is_idle(<<notebook.last_activity>>, clock)
              IN  [idle |-> idle0, raised |-> r.raised, printed |-> <<>>]
    ELSE [idle |-> idle0, raised |-> "none", printed |-> <<"Notebook is not idle:">>]

\* Lines 100-114: the body of the loop over the sessions, for one session.
\* idle0 is the idle flag before; the result is the flag after, what was
\* printed, and the exception raised (if any).
session_step(idle0, ignore, notebook, clock) ==
    IF notebook.execution_state = "idle"
    THEN IF ~ignore
         THEN IF notebook.connections = 0
              THEN LET r == call_is_idle(<<notebook.last_activity>>, clock)
                   IN  IF r.raised # "none"
                       THEN [idle |-> idle0, raised |-> r.raised, printed |-> <<>>]
                       ELSE [idle |-> IF ~r.ret THEN FALSE ELSE idle0,
                             raised |-> "none", printed |-> <<>>]
              ELSE [idle |-> FALSE, raised |-> "none",
                    printed |-> <<"Notebook idle state set as False because no kernel has been detected.">>]
         ELSE LET r == call_is_idle(<<notebook.last_activity>>, clock)
              IN  IF r.raised # "none"
                  THEN [idle |-> idle0, raised |-> r.raised, printed |-> <<>>]
                  ELSE IF ~r.ret
                       THEN [idle |-> FALSE, raised |-> "none",
                             printed |-> <<"Notebook idle state set as False since kernel connections are ignored.">>]
                       ELSE [idle |-> idle0, raised |-> "none", printed |-> <<>>]
    ELSE [idle |-> FALSE, raised |-> "none", printed |-> <<"Notebook is not idle:">>]

\* Fault: the help text is printed and the loop goes on (no exit(0)).
option_step_help_continues(opt, arg, t, p, c) ==
    IF opt \in {"-t", "--time"} /\ int(arg) = None
    THEN [exit |-> None, raised |-> "ValueError", printed |-> <<>>,
          idle_timeout |-> t, port |-> p, ignore_connections |-> c]
    ELSE [exit |-> None, raised |-> "none",
          printed |-> IF opt \in {"-h", "--help"} THEN <<"helpInfo">> ELSE <<>>,
          idle_timeout |-> IF opt \in {"-t", "--time"} THEN int(arg) ELSE t,
          port |-> IF opt \in {"-p", "--port"} THEN arg ELSE p,
          ignore_connections |->
              IF opt \in {"-c", "--ignore-connections"} THEN TRUE ELSE c]

\* Lines 53-61: the body of the loop over the options, for one option.
\* t, p and c are idle_timeout, port and ignore_connections before; exit is
\* the exit code when the body exits, raised the exception int() raises.
option_step(opt, arg, t, p, c) ==
    IF opt \in {"-h", "--help"}
    THEN [exit |-> Some(0), raised |-> "none", printed |-> <<"helpInfo">>,
          idle_timeout |-> t, port |-> p, ignore_connections |-> c]
    ELSE IF opt \in {"-t", "--time"} /\ int(arg) = None
    THEN [exit |-> None, raised |-> "ValueError", printed |-> <<>>,
          idle_timeout |-> t, port |-> p, ignore_connections |-> c]
    ELSE [exit |-> None, raised |-> "none", printed |-> <<>>,
          idle_timeout |-> IF opt \in {"-t", "--time"} THEN int(arg) ELSE t,
          port |-> IF opt \in {"-p", "--port"} THEN arg ELSE p,
          ignore_connections |->
              IF opt \in {"-c", "--ignore-connections"} THEN TRUE ELSE c]

\* Lines 123-127: the timeout the fallback branch checks against.
resolve_timeout(t, tg) ==
    LET fromTag == IF ~Truthy(t) THEN call_get_notebook_timeout_tag(<<>>)
                   ELSE [raised |-> "none", ret |-> t]
    IN  IF fromTag.raised # "none" THEN fromTag
        ELSE IF ~Truthy(fromTag.ret)
             THEN [raised |-> "none", ret |-> Some(default_idle_timeout)]
             ELSE fromTag

----------------------------------------------------------------------------
(* The run *)

NoResource == [arn |-> "", name |-> ""]
Resource == [arn |-> "arn:notebook", name |-> "notebook"]

Init ==
    /\ argv \in ArgvSet
    /\ opts = <<>>
    /\ args = <<>>
    /\ optIdx = 0
    /\ idle = TRUE
    /\ port = DEFAULT_PORT
    /\ ignore_connections = FALSE
    /\ idle_timeout = None
    /\ pc = "getopt"
    /\ error = "none"
    /\ out = <<>>
    /\ calls = <<>>
    /\ notebook_resource = NoResource
    /\ response = "none"
    /\ data = <<>>
    /\ i = 0
    /\ uptime = None
    /\ tags = <<>>
    /\ now = MaxTick
    /\ probe = None
    /\ ret = None

\* An uncaught exception ends the run.
Raise(e) == pc' = "raised" /\ error' = e

\* Lines 48-51 and 62-64: the command line is parsed; a GetoptError prints
\* the usage text and exits with code 1.
Getopt ==
    /\ pc = "getopt"
    /\ LET r == parse_options(argv)
       IN  IF r.err
           THEN /\ out' = Append(out, "usageInfo")
                /\ pc' = "exit(1)"
                /\ UNCHANGED <<opts, args, optIdx>>
           ELSE /\ opts' = r.opts
                /\ args' = r.args
                /\ optIdx' = 1
                /\ pc' = "options"
                /\ out' = out
    /\ UNCHANGED <<argv, idle, port, ignore_connections, idle_timeout, error,
                   calls, notebook_resource, response, data, i, uptime, tags,
                   now, probe, ret>>

\* Lines 52-61: one iteration of the loop over the parsed options.
ProcessOption ==
    /\ pc = "options"
    /\ optIdx <= Len(opts)
    /\ LET r == option_step(opts[optIdx][1], opts[optIdx][2], idle_timeout,
                            port, ignore_connections)
       IN  /\ out' = out \o r.printed
           /\ idle_timeout' = r.idle_timeout
           /\ port' = r.port
           /\ ignore_connections' = r.ignore_connections
           /\ IF r.exit # None
              THEN pc' = "exit(0)" /\ UNCHANGED <<optIdx, error>>
              ELSE IF r.raised # "none"
              THEN Raise(r.raised) /\ UNCHANGED optIdx
              ELSE optIdx' = optIdx + 1 /\ UNCHANGED <<pc, error>>
    /\ UNCHANGED <<argv, opts, args, idle, calls, notebook_resource, response,
                   data, i, uptime, tags, now, probe, ret>>

\* Lines 67-89: the three def statements.  The annotation of
\* get_notebook_timeout_tag, Dict[str, List[str, str]], is evaluated when the
\* def statement runs unless the interpreter defers annotations; evaluated,
\* List[str, str] raises TypeError (typing.List takes one parameter).
DefineFunctions ==
    /\ pc = "options"
    /\ optIdx > Len(opts)
    /\ \E deferred \in BOOLEAN :
          IF deferred
          THEN pc' = "metadata" /\ error' = error
          ELSE Raise("TypeError")
    /\ UNCHANGED <<argv, opts, args, optIdx, idle, port, ignore_connections,
                   idle_timeout, out, calls, notebook_resource, response,
                   data, i, uptime, tags, now, probe, ret>>

\* Line 93 (77-83): the metadata file is read; a missing or malformed file
\* raises.
GetNotebookResource ==
    /\ pc = "metadata"
    /\ calls' = Append(calls, "read_metadata")
    /\ \E ok \in BOOLEAN :
          IF ok
          THEN /\ notebook_resource' = Resource
               /\ pc' = "get_sessions"
               /\ error' = error
          ELSE /\ Raise("OSError")
               /\ UNCHANGED notebook_resource
    /\ UNCHANGED <<argv, opts, args, optIdx, idle, port, ignore_connections,
                   idle_timeout, out, response, data, i, uptime, tags, now,
                   probe, ret>>

\* Lines 94-96 and 115: the sessions are fetched from the local API, and the
\* run takes the per-session branch or the fallback branch.
GetSessions ==
    /\ pc = "get_sessions"
    /\ calls' = Append(calls, "get_sessions")
    /\ \/ /\ response' = "failed"
          /\ Raise("ConnectionError")
          /\ UNCHANGED <<data, i>>
       \/ \E d \in SessionLists :
             /\ response' = "ok"
             /\ data' = d
             /\ i' = 1
             /\ pc' = IF Len(d) > 0 THEN "sessions" ELSE "describe"
             /\ error' = error
    /\ UNCHANGED <<argv, opts, args, optIdx, idle, port, ignore_connections,
                   idle_timeout, out, notebook_resource, uptime, tags, now,
                   probe, ret>>

\* Lines 97-114: one iteration of the loop over the sessions; after the last
\* one the run goes to the decision.
EvalSession ==
    /\ pc = "sessions"
    /\ i <= Len(data)
    /\ LET r == session_step(idle, ignore_connections, data[i], now)
       IN  IF r.raised # "none"
           THEN /\ Raise(r.raised)
                /\ UNCHANGED <<idle, i, out>>
           ELSE /\ idle' = r.idle
                /\ out' = out \o r.printed
                /\ i' = i + 1
                /\ pc' = IF i = Len(data) THEN "decide" ELSE "sessions"
                /\ error' = error
    /\ UNCHANGED <<argv, opts, args, optIdx, port, ignore_connections,
                   idle_timeout, calls, notebook_resource, response, data,
                   uptime, tags, now, probe, ret>>

\* Lines 116-119: LastModifiedTime of the instance.
DescribeNotebookInstance ==
    /\ pc = "describe"
    /\ calls' = Append(calls, "describe_notebook_instance")
    /\ \/ /\ Raise("ClientError")
          /\ UNCHANGED uptime
       \/ \E u \in Ticks :
             /\ uptime' = Some(u)
             /\ pc' = "list_tags"
             /\ error' = error
    /\ UNCHANGED <<argv, opts, args, optIdx, idle, port, ignore_connections,
                   idle_timeout, out, notebook_resource, response, data, i,
                   tags, now, probe, ret>>

\* Lines 120-121: the tags of the instance.
ListTags ==
    /\ pc = "list_tags"
    /\ calls' = Append(calls, "list_tags")
    /\ \/ /\ Raise("ClientError")
          /\ UNCHANGED tags
       \/ \E t \in TagLists :
             /\ tags' = t
             /\ pc' = "timeout"
             /\ error' = error
    /\ UNCHANGED <<argv, opts, args, optIdx, idle, port, ignore_connections,
                   idle_timeout, out, notebook_resource, response, data, i,
                   uptime, now, probe, ret>>

\* Lines 123-131: the timeout is resolved and the instance-level check made.
FallbackCheck ==
    /\ pc = "timeout"
    /\ LET t == resolve_timeout(idle_timeout, tags)
       IN  IF t.raised # "none"
           THEN /\ Raise(t.raised)
                /\ UNCHANGED <<idle_timeout, idle, out>>
           ELSE LET r == call_is_idle(<<strftime(uptime[1]), t.ret[1]>>, now)
                IN  /\ idle_timeout' = t.ret
                    /\ IF r.raised # "none"
                       THEN /\ Raise(r.raised)
                            /\ UNCHANGED <<idle, out>>
                       ELSE /\ idle' = IF ~r.ret THEN FALSE ELSE idle
                            /\ out' = IF ~r.ret
                                      THEN out \o <<"Notebook is not idle. Last activity time = ",
                                                    "Notebook idle state set as False since no sessions detected.">>
                                      ELSE Append(out, "Notebook is idle. Last activity time = ")
                            /\ pc' = "decide"
                            /\ error' = error
    /\ UNCHANGED <<argv, opts, args, optIdx, port, ignore_connections, calls,
                   notebook_resource, response, data, i, uptime, tags, now,
                   probe, ret>>

\* Fault: the stop is requested whatever the idle flag says.
DecideAlwaysStop ==
    /\ pc = "decide"
    /\ out' = Append(out, "Closing idle notebook")
    /\ calls' = Append(calls, "stop_notebook_instance")
    /\ pc' = "end"
    /\ UNCHANGED <<argv, opts, args, optIdx, idle, port, ignore_connections,
                   idle_timeout, error, notebook_resource, response, data, i,
                   uptime, tags, now, probe, ret>>

\* Lines 133-140: the instance is stopped if the idle flag is still set.
Decide ==
    /\ pc = "decide"
    /\ IF idle
       THEN /\ out' = Append(out, "Closing idle notebook")
            /\ calls' = Append(calls, "stop_notebook_instance")
            /\ \E ok \in BOOLEAN :
                  IF ok THEN pc' = "end" /\ error' = error
                  ELSE Raise("ClientError")
       ELSE /\ out' = Append(out, "Notebook not idle. Pass.")
            /\ pc' = "end"
            /\ UNCHANGED <<calls, error>>
    /\ UNCHANGED <<argv, opts, args, optIdx, idle, port, ignore_connections,
                   idle_timeout, notebook_resource, response, data, i, uptime,
                   tags, now, probe, ret>>

Next ==
    \/ Getopt
    \/ ProcessOption
    \/ DefineFunctions
    \/ GetNotebookResource
    \/ GetSessions
    \/ EvalSession
    \/ DescribeNotebookInstance
    \/ ListTags
    \/ FallbackCheck
    \/ Decide

Spec == Init /\ [][Next]_vars

----------------------------------------------------------------------------
(* is_idle on its own: every timestamp, timeout and clock of the bounds *)

InitIsIdle ==
    /\ argv = <<>>
    /\ opts = <<>>
    /\ args = <<>>
    /\ optIdx = 0
    /\ idle = TRUE
    /\ port = DEFAULT_PORT
    /\ ignore_connections = FALSE
    /\ idle_timeout = None
    /\ pc = "call"
    /\ error = "none"
    /\ out = <<>>
    /\ calls = <<>>
    /\ notebook_resource = NoResource
    /\ response = "none"
    /\ data = <<>>
    /\ i = 0
    /\ uptime = None
    /\ tags = <<>>
    /\ now \in Ticks
    /\ probe \in {Some([last_activity |-> la, idle_timeout |-> t]) :
                     la \in Timestamps, t \in 0..MaxTimeout}
    /\ ret = None

CallIsIdle ==
    /\ pc = "call"
    /\ LET r == call_is_idle(<<probe[1].last_activity, probe[1].idle_timeout>>, now)
       IN  /\ ret' = Some(r.ret)
           /\ out' = Append(out, IF r.ret THEN "Notebook is idle. Last activity time = "
                                 ELSE "Notebook is not idle. Last activity time = ")
    /\ pc' = "returned"
    /\ UNCHANGED <<argv, opts, args, optIdx, idle, port, ignore_connections,
                   idle_timeout, error, calls, notebook_resource, response,
                   data, i, uptime, tags, now, probe>>

NextIsIdle == CallIsIdle

SpecIsIdle == InitIsIdle /\ [][NextIsIdle]_vars

----------------------------------------------------------------------------
(* Vocabulary of the properties *)

Terminal == pc \in {"exit(0)", "exit(1)", "raised", "end"}

\* Exceptions that come from outside the script: an unreadable metadata
\* file, a failed request to the local API or to the cloud API.
EnvErrors == {"OSError", "ConnectionError", "ClientError"}

Called(c) == \E k \in 1..Len(calls) : calls[k] = c
Printed(m) == \E k \in 1..Len(out) : out[k] = m
StopRequested == Called("stop_notebook_instance")

Max(S) == CHOOSE x \in S : \A y \in S : y <= x
Min(S) == CHOOSE x \in S : \A y \in S : x <= y

\* The time given on the command line (the last -t/--time), the time of the
\* first AutoStopTimeOut tag, and the timeout they and the default give.
FlagTimeout(o) ==
    LET at == {k \in 1..Len(o) : o[k][1] \in {"-t", "--time"}}
    IN  IF at = {} THEN None ELSE int(o[Max(at)][2])

TagTimeout(tg) ==
    LET at == {k \in 1..Len(tg) : tg[k].Key = "AutoStopTimeOut"}
    IN  IF at = {} THEN None ELSE int(tg[Min(at)].Value)

TagIsInteger(tg) ==
    \A k \in 1..Len(tg) : tg[k].Key = "AutoStopTimeOut" => int(tg[k].Value) # None

EffectiveTimeout(o, tg) ==
    IF FlagTimeout(o) # None THEN FlagTimeout(o)[1]
    ELSE IF TagTimeout(tg) # None THEN TagTimeout(tg)[1]
    ELSE 3600

\* A timestamp (in ticks) is older than a timeout (in seconds) at the clock.
Older(t, timeout, clock) == clock > t + timeout * Resolution

\* A session that counts as quiet: its kernel is idle and nobody is connected
\* to it, or connections are ignored.
Quiet(n) ==
    /\ n.execution_state = "idle"
    /\ (ignore_connections \/ n.connections = 0)

\* A command line the option parser rejects: read from the left, an option
\* the script does not know, or -t/-p/--time/--port as the last token, comes
\* before the first token that is no option; or there is no option at all.
RECURSIVE Malformed(_, _)
Malformed(rest, seen) ==
    IF rest = <<>> THEN seen = 0
    ELSE IF Head(rest) \notin OptionLike THEN seen = 0
    ELSE IF Head(rest) \notin {"-h", "--help", "-t", "--time", "-p", "--port",
                               "-c", "--ignore-connections"} THEN TRUE
    ELSE IF Head(rest) \in {"-t", "--time", "-p", "--port"}
    THEN Len(rest) = 1 \/ Malformed(Tail(Tail(rest)), seen + 1)
    ELSE Malformed(Tail(rest), seen + 1)

IsHelp(o) == o[1] \in {"-h", "--help"}
HelpAmong(o) == \E k \in 1..Len(o) : IsHelp(o[k])
FirstHelp(o) == Min({k \in 1..Len(o) : IsHelp(o[k])})
BadTimeBefore(o, n) ==
    \E k \in 1..(n - 1) : o[k][1] \in {"-t", "--time"} /\ int(o[k][2]) = None

\* The loop over the sessions run on a list d: the idle flag it ends with and
\* the exception that ended it (if any).
RECURSIVE SessionsResult(_, _, _, _)
SessionsResult(idle0, ignore, d, clock) ==
    IF d = <<>> THEN [idle |-> idle0, raised |-> "none"]
    ELSE LET r == session_step(idle0, ignore, Head(d), clock)
         IN  IF r.raised # "none" THEN [idle |-> idle0, raised |-> r.raised]
             ELSE SessionsResult(r.idle, ignore, Tail(d), clock)

\* The lists that differ from d only in the connections of its sessions.
ConnectionVariants(d) ==
    {[k \in 1..Len(d) |-> [d[k] EXCEPT !.connections = c[k]]] :
        c \in [1..Len(d) -> {0, 1}]}

----------------------------------------------------------------------------
(* Properties *)

\* C1: is_idle(last_activity, idle_timeout) returns a boolean, true exactly
\* when the time from the parsed last_activity to the current time is
\* strictly greater than idle_timeout seconds (false when it is equal).
C1_IsIdleStrictlyOlder ==
    pc = "returned" =>
        /\ ret[1] \in BOOLEAN
        /\ ret[1] = (now > (probe[1].last_activity.s + probe[1].idle_timeout) * Resolution
                            + probe[1].last_activity.f)

C1_Witness ==
    /\ pc = "returned"
    /\ probe[1].idle_timeout > 0
    /\ now - strptime(probe[1].last_activity) = probe[1].idle_timeout * Resolution
    /\ ret = Some(FALSE)

\* C2: when the sessions endpoint returns an empty list and nothing outside
\* the script fails, the run reads LastModifiedTime and the tags, and requests
\* the stop if and only if LastModifiedTime is older than the effective idle
\* timeout; when the list is not empty the instance is never described and
\* its tags never listed.
C2_FallbackStopsIffOlder ==
    /\ (Terminal /\ response = "ok" /\ data = <<>> /\ error \notin EnvErrors) =>
           /\ Called("describe_notebook_instance")
           /\ Called("list_tags")
           /\ (TagIsInteger(tags) =>
                  (StopRequested <=> Older(uptime[1], EffectiveTimeout(opts, tags), now)))
    /\ (response = "ok" /\ data # <<>>) =>
           /\ ~Called("describe_notebook_instance")
           /\ ~Called("list_tags")

\* C3: in the fallback branch the timeout is the -t/--time value if given,
\* else the integer of the AutoStopTimeOut tag if present, else 3600, and in
\* each of the three cases the run goes on to check idleness against it.
C3_TimeoutPrecedence ==
    (Terminal /\ Called("list_tags") /\ error \notin EnvErrors /\ TagIsInteger(tags)) =>
        /\ pc = "end"
        /\ idle_timeout = Some(EffectiveTimeout(opts, tags))

\* C4: with -c/--ignore-connections, a run on the same sessions with other
\* kernel.connections values ends the same way: the stop is requested in both
\* or in neither, and the per-session evaluation raises in both or in neither.
C4_ConnectionsIgnored ==
    (Terminal /\ response = "ok" /\ data # <<>> /\ ignore_connections) =>
        \A e \in ConnectionVariants(data) :
            LET o == SessionsResult(TRUE, TRUE, e, now)
            IN  /\ StopRequested = (o.raised = "none" /\ o.idle)
                /\ (error = "TypeError") = (o.raised # "none")
                /\ (pc = "end" => idle = o.idle)

C4_Witness ==
    /\ pc = "end"
    /\ ignore_connections
    /\ Len(data) = 2
    /\ data[1].connections = 0
    /\ data[2].connections = 1

\* C5: when the sessions list is not empty and every session is quiet (kernel
\* idle, no connection or -c given) and has a last_activity older than the
\* idle timeout, the run requests the stop; when every session is quiet and
\* one has a last_activity within the timeout, the run ends without a stop.
C5_QuietSessionsStop ==
    (Terminal /\ response = "ok" /\ data # <<>> /\ error \notin EnvErrors
       /\ idle_timeout # None /\ \A k \in 1..Len(data) : Quiet(data[k])) =>
        IF \A k \in 1..Len(data) :
               Older(strptime(data[k].last_activity), idle_timeout[1], now)
        THEN StopRequested
        ELSE pc = "end" /\ ~StopRequested

\* C6: a malformed command line (an unknown option, an option without its
\* argument, no option at all) prints the usage text and exits with code 1
\* before the metadata file is read and before any call to the local or the
\* cloud API; no stop is requested.
C6_MalformedArgsExitOne ==
    (Malformed(argv, 0) /\ pc # "getopt") =>
        /\ pc = "exit(1)"
        /\ out = <<"usageInfo">>
        /\ calls = <<>>
        /\ notebook_resource = NoResource

C6_Witness ==
    /\ pc = "exit(1)"
    /\ Len(argv) = 2
    /\ argv[1] = "-c"
    /\ argv[2] = "--time"
    /\ out = <<"usageInfo">>

C8_BusySessionPreventsStop ==
    (response = "ok" /\ \E k \in 1..Len(data) : ~Quiet(data[k])) => ~StopRequested

C8_Witness ==
    /\ pc = "end"
    /\ Len(data) = 2
    /\ ~ignore_connections
    /\ data[1].execution_state = "idle" /\ data[1].connections = 1
    /\ data[2].execution_state = "busy"
    /\ Printed("Notebook not idle. Pass.")

\* C9: a run that got past its options, whose metadata file is readable and
\* whose API calls succeed, ends at the decision with exactly one of the two
\* outcomes, and never in an uncaught error.
C9_WellFormedRunsDecide ==
    (Terminal /\ pc \notin {"exit(0)", "exit(1)"}
       /\ error \notin EnvErrors \cup {"ValueError"}) =>
        /\ pc = "end"
        /\ error = "none"
        /\ Printed("Closing idle notebook") # Printed("Notebook not idle. Pass.")
        /\ Printed("Closing idle notebook") = StopRequested

\* C10: the idle flag starts true and only ever goes from true to false; the
\* stop is requested at most once, as the last call of the run, and only at
\* the decision, with the flag still true after the sessions (or the
\* fallback) have been evaluated.
C10_IdleMonotoneStopLast ==
    [][ /\ (pc = "getopt" => idle)
        /\ (~idle => ~idle')
        /\ (StopRequested => calls' = calls)
        /\ (calls' # calls /\ calls'[Len(calls')] = "stop_notebook_instance" =>
               /\ idle /\ idle'
               /\ pc = "decide"
               /\ response = "ok"
               /\ (data = <<>> \/ i > Len(data))
               /\ (data = <<>> => uptime # None /\ idle_timeout # None)) ]_vars

C10_Witness ==
    /\ pc = "end"
    /\ StopRequested
    /\ calls[Len(calls)] = "stop_notebook_instance"
    /\ Len(calls) = 5

====
